---------------------------- MODULE Spec2Model ----------------------------
(***************************************************************************)
(* The V3 query router of vtgate (go/vt/vtgate/router.go).                 *)
(*                                                                         *)
(* A session executes one statement: Router.Execute looks the plan up,     *)
(* dispatches on plan.ID and runs the matching executor.  Every call the   *)
(* router makes to a collaborator (the topology service, a vindex, the     *)
(* scatter executor) is appended to the statement's log with its           *)
(* arguments; the collaborator's answer is either an input of the step     *)
(* (an error, a malformed answer) or read from the modelled world: the     *)
(* vindex tables (vindexTab), the base tables (rows) and the serving       *)
(* topology (topo).  overlap holds the sessions whose statement was        *)
(* running while another session's statement made a call.                  *)
(***************************************************************************)
EXTENDS Integers, Sequences, FiniteSets, TLC

VARIABLES topo, vindexTab, rows, st, overlap

vars == <<topo, vindexTab, rows, st, overlap>>

(***************************************************************************)
(* Bounds.                                                                 *)
(***************************************************************************)
\* Column values are the integers 1..MaxVal.
MaxVal == 3
\* Base-table rows present before the statements start.
MaxRows == 2

(***************************************************************************)
(* Go values held in an interface{}: a type tag and a content.             *)
(***************************************************************************)
Nil == [t |-> "nil", v |-> 0]
IntV(n) == [t |-> "int", v |-> n]
StrV(n) == [t |-> "string", v |-> n]
BytesV(n) == [t |-> "bytes", v |-> n]

Values == {IntV(n) : n \in 1..MaxVal}

\* key.MinKey: the empty keyspace id, the least one.
MinKey == 0
\* A keyspace id argument that a call does not take.
NoKsid == MinKey - 1
Ksids == 0..(MaxVal - 1)

\* The bind variable the router reserves for the keyspace id.
ksidName == "keyspace_id"

\* fmt.Sprintf("%v", ksid): the text the routing comment carries.
FormatKsid(ksid) == ToString(ksid)

\* A faulty routing comment that leaves the keyspace id out.
dmlPostfixBare(ksid) == <<" /* _routing keyspace_id:", " */">>

\* fmt.Sprintf(dmlPostfix, ksid), as the tokens appended to the SQL text.
dmlPostfix(ksid) == <<" /* _routing keyspace_id:", FormatKsid(ksid), " */">>

EmptyMap == [x \in {} |-> Nil]

SeqToSet(s) == {s[i] : i \in 1..Len(s)}

(***************************************************************************)
(* The schema the planner hands the router: vindexes with the interfaces   *)
(* they implement, tables with their ordered ColVindexes.                  *)
(***************************************************************************)
VindexCaps(vx) ==
    CASE vx = "user_index" ->
           {"Unique", "Functional", "FunctionalGenerator", "Reversible"}
      [] vx = "music_user_map" -> {"Unique", "Lookup", "LookupGenerator"}
      [] vx = "name_user_map" -> {"NonUnique", "Lookup"}
      [] OTHER -> {}

Implements(vx, iface) == iface \in VindexCaps(vx)

CV(col, vx, owned) == [Col |-> col, Vindex |-> vx, Owned |-> owned]

Table(name) ==
    CASE name = "user" ->
           [Name |-> "user", Keyspace |-> "TestRouter",
            ColVindexes |-> <<CV("id", "user_index", TRUE),
                              CV("name", "name_user_map", TRUE)>>]
      [] name = "user_extra" ->
           [Name |-> "user_extra", Keyspace |-> "TestRouter",
            ColVindexes |-> <<CV("user_id", "user_index", FALSE)>>]
      [] name = "music" ->
           [Name |-> "music", Keyspace |-> "TestRouter",
            ColVindexes |-> <<CV("user_id", "user_index", FALSE),
                              CV("id", "music_user_map", TRUE)>>]
      [] name = "music_extra" ->
           [Name |-> "music_extra", Keyspace |-> "TestRouter",
            ColVindexes |-> <<CV("user_id", "user_index", FALSE),
                              CV("music_id", "music_user_map", FALSE)>>]
      [] name = "music_extra_reversed" ->
           [Name |-> "music_extra_reversed", Keyspace |-> "TestRouter",
            ColVindexes |-> <<CV("music_id", "music_user_map", FALSE),
                              CV("user_id", "user_index", FALSE)>>]
      \* A table both of whose ColVindexes can generate a value.
      [] name = "autoinc2" ->
           [Name |-> "autoinc2", Keyspace |-> "TestRouter",
            ColVindexes |-> <<CV("id", "user_index", TRUE),
                              CV("mid", "music_user_map", TRUE)>>]
      \* A table with two secondary ColVindexes.
      [] name = "music_tag" ->
           [Name |-> "music_tag", Keyspace |-> "TestRouter",
            ColVindexes |-> <<CV("user_id", "user_index", FALSE),
                              CV("music_id", "music_user_map", FALSE),
                              CV("tag", "name_user_map", TRUE)>>]
      \* Unexpected shapes: a vindex that implements none of the interfaces.
      [] name = "opaque" ->
           [Name |-> "opaque", Keyspace |-> "TestRouter",
            ColVindexes |-> <<CV("id", "opaque_index", FALSE)>>]
      [] name = "opaque_owned" ->
           [Name |-> "opaque_owned", Keyspace |-> "TestRouter",
            ColVindexes |-> <<CV("id", "user_index", FALSE),
                              CV("tag", "opaque_index", TRUE)>>]
      [] OTHER ->
           [Name |-> name, Keyspace |-> "TestUnsharded", ColVindexes |-> <<>>]

\* Table.Owned: the owned ColVindexes, in ColVindex order.
IsOwned(cv) == cv.Owned
Owned(name) == SelectSeq(Table(name).ColVindexes, IsOwned)

\* The positions of the owned ColVindexes in Table.ColVindexes.
OwnedCols(name) ==
    LET cvs == Table(name).ColVindexes
        F[i \in 0..Len(cvs)] ==
            IF i = 0 THEN <<>>
            ELSE IF cvs[i].Owned THEN Append(F[i - 1], i) ELSE F[i - 1]
    IN  F[Len(cvs)]

(***************************************************************************)
(* Plans, by SQL text (Planner.GetPlan).  Values holds items: a bind-var   *)
(* reference (a string: the sentinel and the name), a raw byte string, or  *)
(* anything else.  ColVindex is the position of the routing ColVindex in   *)
(* the table; SubCols are the columns the subquery selects.                *)
(***************************************************************************)
Ref(name) == [t |-> "string", sentinel |-> ":", name |-> name, v |-> 0]
Lit(val) == [t |-> val.t, sentinel |-> "", name |-> "", v |-> val.v]

P(id, table, cv, values, sub, subcols) ==
    [ID |-> id, Table |-> table, ColVindex |-> cv, Values |-> values,
     Subquery |-> sub, SubCols |-> subcols]

Sqls ==
    {"select_unsharded", "update_unsharded", "delete_unsharded",
     "insert_unsharded",
     "select_user_by_id", "select_user_by_name", "select_opaque",
     "select_user_in_ids", "select_user_in_names",
     "select_keyrange", "select_scatter",
     "update_user_by_id", "update_music_by_id", "update_user_by_name",
     "delete_user_by_id", "delete_music_by_id", "delete_user_extra",
     "delete_user_badwidth", "delete_opaque_owned",
     "insert_user", "insert_music", "insert_music_extra",
     "insert_music_extra_reversed", "insert_autoinc2", "insert_music_tag",
     "show_tables"}

GetPlan(sql) ==
    CASE sql = "select_unsharded" ->
           P("SelectUnsharded", "user_idx", 0, <<>>, "", <<>>)
      [] sql = "update_unsharded" ->
           P("UpdateUnsharded", "user_idx", 0, <<>>, "", <<>>)
      [] sql = "delete_unsharded" ->
           P("DeleteUnsharded", "user_idx", 0, <<>>, "", <<>>)
      [] sql = "insert_unsharded" ->
           P("InsertUnsharded", "user_idx", 0, <<>>, "", <<>>)
      [] sql = "select_user_by_id" ->
           P("SelectEqual", "user", 1, <<Ref("id")>>, "", <<>>)
      [] sql = "select_user_by_name" ->
           P("SelectEqual", "user", 2, <<Ref("name")>>, "", <<>>)
      [] sql = "select_opaque" ->
           P("SelectEqual", "opaque", 1, <<Ref("id")>>, "", <<>>)
      [] sql = "select_user_in_ids" ->
           P("SelectIN", "user", 1, <<Ref("id"), Lit(BytesV(1))>>, "", <<>>)
      [] sql = "select_user_in_names" ->
           P("SelectIN", "user", 2, <<Ref("name"), Lit(IntV(1))>>, "", <<>>)
      [] sql = "select_keyrange" ->
           P("SelectKeyrange", "user", 1, <<Ref("a"), Ref("b")>>, "", <<>>)
      [] sql = "select_scatter" ->
           P("SelectScatter", "user", 0, <<>>, "", <<>>)
      [] sql = "update_user_by_id" ->
           P("UpdateEqual", "user", 1, <<Ref("id")>>, "", <<>>)
      [] sql = "update_music_by_id" ->
           P("UpdateEqual", "music", 2, <<Ref("id")>>, "", <<>>)
      [] sql = "update_user_by_name" ->
           P("UpdateEqual", "user", 2, <<Ref("name")>>, "", <<>>)
      [] sql = "delete_user_by_id" ->
           P("DeleteEqual", "user", 1, <<Ref("id")>>,
             "select_id_name_from_user", <<1, 2>>)
      [] sql = "delete_music_by_id" ->
           P("DeleteEqual", "music", 2, <<Ref("id")>>,
             "select_id_from_music", <<2>>)
      [] sql = "delete_user_extra" ->
           P("DeleteEqual", "user_extra", 1, <<Ref("id")>>, "", <<>>)
      [] sql = "delete_user_badwidth" ->
           P("DeleteEqual", "user", 1, <<Ref("id")>>,
             "select_name_from_user", <<2>>)
      [] sql = "delete_opaque_owned" ->
           P("DeleteEqual", "opaque_owned", 1, <<Ref("id")>>,
             "select_tag_from_opaque_owned", <<2>>)
      [] sql = "insert_user" ->
           P("InsertSharded", "user", 0, <<Ref("id"), Ref("name")>>, "", <<>>)
      [] sql = "insert_music" ->
           P("InsertSharded", "music", 0, <<Ref("id"), Ref("name")>>, "", <<>>)
      [] sql = "insert_music_extra" ->
           P("InsertSharded", "music_extra", 0,
             <<Ref("id"), Ref("name")>>, "", <<>>)
      [] sql = "insert_music_extra_reversed" ->
           P("InsertSharded", "music_extra_reversed", 0,
             <<Ref("id"), Ref("name")>>, "", <<>>)
      [] sql = "insert_autoinc2" ->
           P("InsertSharded", "autoinc2", 0,
             <<Ref("id"), Ref("name")>>, "", <<>>)
      [] sql = "insert_music_tag" ->
           P("InsertSharded", "music_tag", 0,
             <<Ref("id"), Ref("name"), Lit(IntV(1))>>, "", <<>>)
      [] OTHER -> P("ShowTables", "user", 0, <<>>, "", <<>>)

\* plan.Rewritten: the planner's rewrite of the statement, as SQL tokens.
Rewritten(sql) == <<"rewritten", sql>>

\* plan.ColVindex: the routing ColVindex of the plan.
PlanColVindex(plan) == Table(plan.Table).ColVindexes[plan.ColVindex]

(***************************************************************************)
(* The topology service: the shards serving each keyspace, now.  A shard   *)
(* is a key range [Start, End); an empty End is the top of the keyspace.   *)
(***************************************************************************)
MaxKey == MinKey

Shard(name, start, end) == [Name |-> name, Start |-> start, End |-> end]

\* A shard's name states its key range.
KnownShard(name) ==
    CASE name = "-2" -> Shard("-2", MinKey, 2)
      [] name = "2-" -> Shard("2-", 2, MaxKey)
      [] name = "-1" -> Shard("-1", MinKey, 1)
      [] name = "1-2" -> Shard("1-2", 1, 2)
      [] OTHER -> Shard(name, MinKey, MaxKey)

Topologies == {"serving", "resharding"}

\* The serving graph of `keyspace` under topology `t`: the effective
\* keyspace name and its shards, in key order.  While resharding, the
\* sharded keyspace is served under another name by the new shards that are
\* up (the top of the key space is not served yet), and the unsharded
\* keyspace lists two shards.
SrvKeyspace(t, keyspace) ==
    IF keyspace = "TestRouter"
    THEN IF t = "serving"
         THEN [ks |-> "TestRouter",
               shards |-> <<KnownShard("-2"), KnownShard("2-")>>]
         ELSE [ks |-> "TestRouterSplit",
               shards |-> <<KnownShard("-1"), KnownShard("1-2")>>]
    ELSE IF t = "serving"
         THEN [ks |-> "TestUnsharded", shards |-> <<KnownShard("0")>>]
         ELSE [ks |-> "TestUnsharded",
               shards |-> <<KnownShard("-2"), KnownShard("2-")>>]

\* key.KeyRange.Contains
Contains(kr, ksid) ==
    /\ (kr.Start = MinKey \/ ksid >= kr.Start)
    /\ (kr.End = MaxKey \/ ksid < kr.End)

\* getShardForKeyspaceId: the shard whose range holds ksid, or an error.
getShardForKeyspaceId(allShards, ksid) ==
    LET hit == {i \in 1..Len(allShards) : Contains(allShards[i], ksid)}
    IN  IF hit = {}
        THEN [err |-> "KeyspaceId didn't match any shards", shard |-> ""]
        ELSE [err |-> "",
              shard |-> allShards[CHOOSE i \in hit : \A j \in hit : i <= j].Name]

\* mapExactShards: the shards a key range covers.
mapExactShards(allShards, kr) ==
    {allShards[i].Name : i \in
        {j \in 1..Len(allShards) :
            /\ (kr.End = MaxKey \/ allShards[j].Start < kr.End)
            /\ (allShards[j].End = MaxKey \/ kr.Start < allShards[j].End)}}

ShardNames(allShards) == {allShards[i].Name : i \in 1..Len(allShards)}

(***************************************************************************)
(* The vindexes.  A functional vindex computes the keyspace id from the    *)
(* value; a lookup vindex reads it from its table.  vindexTab holds the    *)
(* entries of every vindex table: [vx, val, ksid].                         *)
(***************************************************************************)
Entry(vx, val, ksid) == [vx |-> vx, val |-> val, ksid |-> ksid]

\* The keyspace id a functional vindex computes; the value MaxVal is
\* unroutable (its image is MinKey).
Hash(n) == MaxVal - n

\* The ascending sequence of a set of keyspace ids.
RECURSIVE SortedSeq(_)
SortedSeq(S) ==
    IF S = {} THEN <<>>
    ELSE LET m == CHOOSE x \in S : \A y \in S : x <= y
         IN  <<m>> \o SortedSeq(S \ {m})

LookupKsids(tab, vx, key) == {e.ksid : e \in {x \in tab : x.vx = vx /\ x.val = key}}

\* Whether the vindex can map the key at all (a hash of a non-number fails).
Mappable(vx, key) == Implements(vx, "Lookup") \/ key.t = "int"

\* Unique.Map of one key.
MapOne(tab, vx, key) ==
    IF Implements(vx, "Functional")
    THEN Hash(key.v)
    ELSE LET ks == LookupKsids(tab, vx, key)
         IN  IF ks = {} THEN MinKey ELSE CHOOSE k \in ks : \A j \in ks : k <= j

\* Unique.Map: one keyspace id per key.
UniqueMap(tab, vx, keys) == [i \in 1..Len(keys) |-> MapOne(tab, vx, keys[i])]

\* NonUnique.Map: the keyspace ids of each key.
NonUniqueMap(tab, vx, keys) ==
    [i \in 1..Len(keys) |-> SortedSeq(LookupKsids(tab, vx, keys[i]))]

\* Functional.Create(value) and Lookup.Create(value, ksid).
FunctionalCreate(tab, vx, val) == tab \cup {Entry(vx, val, Hash(val.v))}
LookupCreate(tab, vx, val, ksid) == tab \cup {Entry(vx, val, ksid)}

\* A unique lookup table refuses a second keyspace id for a value.
CreateRefused(tab, vx, val, ksid) ==
    /\ Implements(vx, "Unique")
    /\ Implements(vx, "Lookup")
    /\ LookupKsids(tab, vx, val) \ {ksid} # {}

\* Functional.Delete(ids, ksid) and Lookup.Delete(ids, ksid).
FunctionalDelete(tab, vx, ids, ksid) ==
    {e \in tab : ~(e.vx = vx /\ e.val \in ids)}
LookupDelete(tab, vx, ids, ksid) ==
    {e \in tab : ~(e.vx = vx /\ e.val \in ids /\ e.ksid = ksid)}

\* Vindex.Verify(value, ksid).
VerifyOne(tab, vx, val, ksid) ==
    IF Implements(vx, "Functional")
    THEN Mappable(vx, val) /\ Hash(val.v) = ksid
    ELSE ksid \in LookupKsids(tab, vx, val)

\* Reversible.ReverseMap(ksid): the value whose image is ksid.
ReverseMapOne(vx, ksid) == IntV(MaxVal - ksid)

(***************************************************************************)
(* The backend behind the scatter executor: the base tables.  A row is     *)
(* [table, vals, ksid], vals in ColVindex order.                           *)
(***************************************************************************)
Row(table, vals, ksid) == [table |-> table, vals |-> vals, ksid |-> ksid]

\* The rows of `table` on (the shards named in) `shards` whose column `col`
\* equals `key`: what the WHERE clause of an equal-predicate DML matches.
Matching(rs, shards, table, col, key) ==
    {r \in rs :
        /\ r.table = table
        /\ r.vals[col] = key
        /\ \E sh \in shards : Contains(KnownShard(sh), r.ksid)}

\* The cell of a result row, as the backend returns it: raw bytes and the
\* field's type.
Raw(val) == [numeric |-> val.t = "int", raw |-> val.v]

\* mproto.Convert(field.Type, cell): a number for a numeric field, else the
\* bytes.
Convert(cell) == IF cell.numeric THEN IntV(cell.raw) ELSE BytesV(cell.raw)

\* The result rows of the subquery: the SubCols of the matching rows.
SubqueryRows(matched, subcols) ==
    {[i \in 1..Len(subcols) |-> Raw(r.vals[subcols[i]])] : r \in matched}

\* The vindex entries a successful insert of the row leaves.
Mirror(r) ==
    {Entry(Table(r.table).ColVindexes[i].Vindex, r.vals[i], r.ksid) :
        i \in SeqToSet(OwnedCols(r.table))}

(***************************************************************************)
(* A statement in execution (the requestContext and the executor's         *)
(* locals) and the log of the calls it has made.                           *)
(***************************************************************************)
Sessions == {"s1", "s2"}

NoResult == [status |-> "none", err |-> "", insertId |-> 0]

\* What a client sends with the SQL: a nil map or a map of bind variables.
NoQuery == [nilMap |-> TRUE, m |-> EmptyMap]

\* sent is the query as the client sent it; bv is query.BindVariables, which
\* the executors write to.
Idle ==
    [pc |-> "idle", sql |-> "", session |-> "", sent |-> NoQuery, bv |-> EmptyMap,
     keys |-> <<>>, ks |-> "",
     shard |-> "", ksid |-> MinKey, generated |-> 0, i |-> 0, subrows |-> {},
     removed |-> {}, seen |-> {}, log |-> <<>>, res |-> NoResult]

\* A call: its arguments, the error it returned, and in ret the keyspace id
\* a single-key Map returned, the value a Generate or a ReverseMap returned,
\* 1 or 0 for the true or false of a Verify, the number of rows a subquery
\* returned, or the insert id the base INSERT returned; in rets the keyspace ids a Map of resolveShards
\* returned, one sequence for each key it answered.
NoRet == NoKsid

Ev == [op |-> "", vx |-> "", keys |-> <<>>, ids |-> {}, ksid |-> NoKsid,
       sql |-> <<>>, bv |-> EmptyMap, ks |-> "", shards |-> {},
       shardVars |-> EmptyMap, session |-> "", err |-> "", ret |-> NoRet,
       rets |-> <<>>]

\* getKeyspaceShards: the effective keyspace and the shards it returned.
EvTopo(srv, failed) ==
    [Ev EXCEPT !.op = "getKeyspaceShards",
               !.err = IF failed THEN "topology: node doesn't exist" ELSE "",
               !.ks = IF failed THEN "" ELSE srv.ks,
               !.shards = IF failed THEN {}
                          ELSE {srv.shards[i].Name : i \in 1..Len(srv.shards)}]
EvMap(vx, keys, err) == [Ev EXCEPT !.op = "Map", !.vx = vx, !.keys = keys, !.err = err]
EvMapOne(vx, key, err, ksid) ==
    [EvMap(vx, <<key>>, err) EXCEPT !.ret = IF err = "" THEN ksid ELSE NoRet]
EvVindex(op, vx, keys, ksid, err) ==
    [Ev EXCEPT !.op = op, !.vx = vx, !.keys = keys, !.ksid = ksid, !.err = err]
EvDelete(vx, ids, ksid, err) ==
    [Ev EXCEPT !.op = "Delete", !.vx = vx, !.ids = ids, !.ksid = ksid, !.err = err]
EvExecute(sql, bv, ks, shards, err) ==
    [Ev EXCEPT !.op = "Execute", !.sql = sql, !.bv = bv, !.ks = ks,
               !.shards = shards, !.err = err]
EvExecuteMulti(sql, ks, shardVars, err) ==
    [Ev EXCEPT !.op = "ExecuteMulti", !.sql = sql, !.ks = ks,
               !.shards = DOMAIN shardVars, !.shardVars = shardVars, !.err = err]

\* A faulty router that opens a session of its own for each dispatch.
NewSafeSessionFresh(r) == ToString(Len(r.log))

\* NewSafeSession(vcursor.query.Session): the session a dispatch runs under.
NewSafeSession(r) == r.session

\* The statement's log with one more call; a dispatch to the scatter
\* executor is given the session.
Logged(r, ev) ==
    [r EXCEPT !.log = Append(@, IF ev.op \in {"Execute", "ExecuteMulti"}
                                THEN [ev EXCEPT !.session = NewSafeSession(r)]
                                ELSE ev)]

\* The statement of session s is between its first call and its return.
InFlight(s) == st[s].pc \notin {"idle", "done"}

\* Session s makes a call: the statements then running overlap with it.
Calls(s) == overlap' = overlap \cup {o \in Sessions \ {s} : InFlight(o)}

\* The executor returns (result, nil), (nil, err), or panics.
Return(r, insertId) ==
    [r EXCEPT !.pc = "done", !.res = [status |-> "ok", err |-> "", insertId |-> insertId]]
Fail(r, err) ==
    [r EXCEPT !.pc = "done", !.res = [status |-> "error", err |-> err, insertId |-> 0]]
Panic(r, msg) ==
    [r EXCEPT !.pc = "done", !.res = [status |-> "panic", err |-> msg, insertId |-> 0]]

\* What a failing collaborator returns.
ErrIf(failed, err) == IF failed THEN err ELSE ""
TopoError == "topology: node doesn't exist"
MapError == "vindex: map failed"
VindexError == "vindex: call failed"
ExecError == "scatter: execute failed"

\* A map with one more (or one overwritten) entry.
Put(m, k, v) == (k :> v) @@ m

(***************************************************************************)
(* Router.resolveKeys                                                      *)
(***************************************************************************)
\* A faulty resolveKeys that leaves a byte string as it is.
BytesKeyRaw(val) == BytesV(val.v)

\* string(val): the text of a byte string.
BytesKey(val) == StrV(val.v)

resolveKeys(vals, bindVars) ==
    LET key(val) ==
            CASE val.t = "string" -> bindVars[val.name]
              [] val.t = "bytes" -> BytesKey(val)
              [] OTHER -> [t |-> val.t, v |-> val.v]
        missing == {i \in 1..Len(vals) :
                       vals[i].t = "string" /\ vals[i].name \notin DOMAIN bindVars}
    IN  IF missing # {}
        THEN [err |-> "could not find bind var", keys |-> <<>>]
        ELSE [err |-> "", keys |-> [i \in 1..Len(vals) |-> key(vals[i])]]

(***************************************************************************)
(* Router.Execute: the plan lookup, the dispatch on plan.ID, and the       *)
(* executor's resolveKeys.                                                 *)
(***************************************************************************)
Unsharded == {"SelectUnsharded", "UpdateUnsharded", "DeleteUnsharded", "InsertUnsharded"}

\* The executor arm of a plan kind: the program point its first call is at.
Arm(id) ==
    CASE id \in Unsharded -> "execUnsharded"
      [] id = "SelectEqual" -> "execSelectEqual"
      [] id = "SelectIN" -> "execSelectIN"
      [] id = "SelectKeyrange" -> "execSelectKeyrange"
      [] id = "SelectScatter" -> "execSelectScatter"
      [] id = "UpdateEqual" -> "resolveSingleShard"
      [] id = "DeleteEqual" -> "resolveSingleShard"
      [] id = "InsertSharded" -> "handlePrimary"
      [] OTHER -> "unimplemented"

Dispatch(r, plan) ==
    LET arm == Arm(plan.ID)
        rk == resolveKeys(plan.Values, r.bv)
    IN  IF arm = "unimplemented" THEN Fail(r, "plan unimplemented")
        ELSE IF arm \in {"execUnsharded", "execSelectScatter"}
             THEN [r EXCEPT !.pc = arm]
        ELSE IF rk.err # "" THEN Fail(r, rk.err)
        ELSE [r EXCEPT !.pc = arm, !.keys = rk.keys]

\* The values a client binds to the variables a plan refers to (for an
\* unsharded plan, which has no values, to the variable of its SQL).
BindNames(plan) ==
    IF plan.ID \in Unsharded THEN {"id"}
    ELSE {plan.Values[i].name :
            i \in {j \in 1..Len(plan.Values) : plan.Values[j].t = "string"}}
BindDomain(plan) ==
    CASE plan.ID = "InsertSharded" -> Values \cup {Nil}
      [] plan.ID = "SelectKeyrange" -> {StrV(k) : k \in Ksids} \cup {IntV(1)}
      [] OTHER -> Values

\* The queries a client sends: the SQL text and the bind variables (a nil,
\* an empty or a full map).
Queries(sql) ==
    {[nilMap |-> TRUE, m |-> EmptyMap]}
    \cup {[nilMap |-> FALSE, m |-> m] :
            m \in [BindNames(GetPlan(sql)) -> BindDomain(GetPlan(sql))] \cup {EmptyMap}}

Execute(s, sql, q) ==
    /\ st[s].pc = "idle"
    /\ LET bv == IF q.nilMap THEN EmptyMap ELSE q.m
           r == [Idle EXCEPT !.sql = sql, !.session = s, !.sent = q, !.bv = bv]
       IN  st' = [st EXCEPT ![s] = Dispatch(r, GetPlan(sql))]
    /\ UNCHANGED <<topo, vindexTab, rows, overlap>>

\* vcursor.query.Sql: the statement as the client sent it.
QuerySql(r) == <<r.sql>>

(***************************************************************************)
(* Router.execUnsharded                                                    *)
(***************************************************************************)
\* A faulty execUnsharded that takes the first shard of any number.
MultipleShardsAllowed(allShards) == FALSE

\* len(allShards) != 1
MultipleShards(allShards) == Len(allShards) # 1

execUnsharded(r, t, topoErr, execErr) ==
    LET plan == GetPlan(r.sql)
        srv == SrvKeyspace(t, Table(plan.Table).Keyspace)
        r1 == Logged(r, EvTopo(srv, topoErr))
        r2 == Logged(r1, EvExecute(QuerySql(r), r.bv, srv.ks,
                                   {srv.shards[1].Name}, ErrIf(execErr, ExecError)))
    IN  IF topoErr THEN Fail(r1, TopoError)
        ELSE IF MultipleShards(srv.shards)
             THEN Fail(r1, "unsharded keyspace has multiple shards")
        ELSE IF execErr THEN Fail(r2, ExecError)
        ELSE Return(r2, 0)

ExecUnsharded(s) ==
    /\ st[s].pc = "execUnsharded"
    /\ \E topoErr \in BOOLEAN, execErr \in BOOLEAN :
         st' = [st EXCEPT ![s] = execUnsharded(st[s], topo, topoErr, execErr)]
    /\ UNCHANGED <<topo, vindexTab, rows>>
    /\ Calls(s)

(***************************************************************************)
(* Router.resolveShards.  mapOut is what the vindex's Map does: it         *)
(* answers, fails, or answers with no keyspace id at all.                  *)
(***************************************************************************)
MapOutcomes == {"ok", "error", "short"}

\* routingMap.Add over the (key, ksid) pairs in order: each shard's keys.
Routing(allShards, pairs) ==
    LET shardOf(pr) == getShardForKeyspaceId(allShards, pr.ksid).shard
        Live(pr) == pr.ksid # MinKey
        live == SelectSeq(pairs, Live)
        shards == {shardOf(live[i]) : i \in 1..Len(live)}
        keysOf(sh) ==
            LET To(pr) == shardOf(pr) = sh
                on == SelectSeq(live, To)
            IN  [i \in 1..Len(on) |-> on[i].key]
    IN  [sh \in shards |-> keysOf(sh)]

\* The (key, ksid) pairs of a Map answer, in the order the loops visit them.
UniquePairs(keys, ksids) ==
    [i \in 1..Len(ksids) |-> [key |-> keys[i], ksid |-> ksids[i]]]

RECURSIVE NonUniquePairs(_, _, _)
NonUniquePairs(keys, ksidss, i) ==
    IF i > Len(ksidss) THEN <<>>
    ELSE [j \in 1..Len(ksidss[i]) |-> [key |-> keys[i], ksid |-> ksidss[i][j]]]
         \o NonUniquePairs(keys, ksidss, i + 1)

resolveShards(r, t, tab, topoErr, mapOut) ==
    LET plan == GetPlan(r.sql)
        srv == SrvKeyspace(t, Table(plan.Table).Keyspace)
        vx == PlanColVindex(plan).Vindex
        mapFails == mapOut = "error" \/ \E i \in 1..Len(r.keys) : ~Mappable(vx, r.keys[i])
        r1 == Logged(r, EvTopo(srv, topoErr))
        ksidss == IF mapOut = "short" \/ mapFails THEN <<>>
                  ELSE IF Implements(vx, "Unique")
                       THEN [i \in 1..Len(r.keys) |-> <<UniqueMap(tab, vx, r.keys)[i]>>]
                       ELSE NonUniqueMap(tab, vx, r.keys)
        r2 == Logged(r1, [EvMap(vx, r.keys, ErrIf(mapFails, MapError))
                          EXCEPT !.rets = ksidss])
        pairs == IF mapOut = "short" THEN <<>>
                 ELSE IF Implements(vx, "Unique")
                      THEN UniquePairs(r.keys, UniqueMap(tab, vx, r.keys))
                      ELSE NonUniquePairs(r.keys, NonUniqueMap(tab, vx, r.keys), 1)
        unmatched == {i \in 1..Len(pairs) :
                        /\ pairs[i].ksid # MinKey
                        /\ getShardForKeyspaceId(srv.shards, pairs[i].ksid).err # ""}
        none == [kind |-> "error", err |-> "", ks |-> "", routing |-> EmptyMap, r |-> r]
    IN  IF topoErr THEN [none EXCEPT !.err = TopoError, !.r = r1]
        ELSE IF ~Implements(vx, "Unique") /\ ~Implements(vx, "NonUnique")
             THEN [none EXCEPT !.kind = "panic", !.err = "unexpected", !.r = r1]
        ELSE IF mapFails THEN [none EXCEPT !.err = MapError, !.r = r2]
        ELSE IF unmatched # {}
             THEN [none EXCEPT !.err = "KeyspaceId didn't match any shards", !.r = r2]
        ELSE [kind |-> "ok", err |-> "", ks |-> srv.ks,
              routing |-> Routing(srv.shards, pairs), r |-> r2]

(***************************************************************************)
(* Router.execSelectEqual and Router.execSelectIN.  Neither looks at the   *)
(* error resolveShards returns.                                            *)
(***************************************************************************)
execSelectEqual(r, t, tab, topoErr, mapOut, execErr) ==
    LET plan == GetPlan(r.sql)
        rs == resolveShards(r, t, tab, topoErr, mapOut)
        r3 == Logged(rs.r, EvExecute(Rewritten(r.sql), r.bv, rs.ks,
                                     DOMAIN rs.routing, ErrIf(execErr, ExecError)))
    IN  IF rs.kind = "panic" THEN Panic(rs.r, rs.err)
        ELSE IF execErr THEN Fail(r3, ExecError)
        ELSE Return(r3, 0)

ExecSelectEqual(s) ==
    /\ st[s].pc = "execSelectEqual"
    /\ \E topoErr \in BOOLEAN, mapOut \in MapOutcomes, execErr \in BOOLEAN :
         st' = [st EXCEPT ![s] =
                  execSelectEqual(st[s], topo, vindexTab, topoErr, mapOut, execErr)]
    /\ UNCHANGED <<topo, vindexTab, rows>>
    /\ Calls(s)

\* planbuilder.ListVarName
ListVarName == "_vals"
ListV(vals) == [t |-> "list", v |-> vals]

execSelectIN(r, t, tab, topoErr, mapOut, execErr) ==
    LET plan == GetPlan(r.sql)
        rs == resolveShards(r, t, tab, topoErr, mapOut)
        shardVars == [sh \in DOMAIN rs.routing |->
                        Put(r.bv, ListVarName, ListV(rs.routing[sh]))]
        r3 == Logged(rs.r, EvExecuteMulti(Rewritten(r.sql), rs.ks, shardVars,
                                          ErrIf(execErr, ExecError)))
    IN  IF rs.kind = "panic" THEN Panic(rs.r, rs.err)
        ELSE IF execErr THEN Fail(r3, ExecError)
        ELSE Return(r3, 0)

ExecSelectIN(s) ==
    /\ st[s].pc = "execSelectIN"
    /\ \E topoErr \in BOOLEAN, mapOut \in MapOutcomes, execErr \in BOOLEAN :
         st' = [st EXCEPT ![s] =
                  execSelectIN(st[s], topo, vindexTab, topoErr, mapOut, execErr)]
    /\ UNCHANGED <<topo, vindexTab, rows>>
    /\ Calls(s)

(***************************************************************************)
(* Router.execSelectKeyrange, getKeyRange and Router.execSelectScatter     *)
(***************************************************************************)
getKeyRange(keys) ==
    IF \E i \in 1..Len(keys) : keys[i].t # "string"
    THEN [err |-> "expecting strings for keyrange", Start |-> MinKey, End |-> MaxKey]
    ELSE [err |-> "", Start |-> keys[1].v, End |-> keys[2].v]

\* A faulty execSelectKeyrange that dispatches to whatever the range covers.
NotOneShardAllowed(shards) == FALSE

\* len(shards) != 1
NotOneShard(shards) == Cardinality(shards) # 1

execSelectKeyrange(r, t, topoErr, execErr) ==
    LET plan == GetPlan(r.sql)
        kr == getKeyRange(r.keys)
        srv == SrvKeyspace(t, Table(plan.Table).Keyspace)
        shards == mapExactShards(srv.shards, kr)
        r1 == Logged(r, EvTopo(srv, topoErr))
        r2 == Logged(r1, EvExecute(Rewritten(r.sql), r.bv, srv.ks, shards,
                                   ErrIf(execErr, ExecError)))
    IN  IF kr.err # "" THEN Fail(r, kr.err)
        ELSE IF topoErr THEN Fail(r1, TopoError)
        ELSE IF NotOneShard(shards)
             THEN Fail(r1, "keyrange must match exactly one shard")
        ELSE IF execErr THEN Fail(r2, ExecError)
        ELSE Return(r2, 0)

ExecSelectKeyrange(s) ==
    /\ st[s].pc = "execSelectKeyrange"
    /\ \E topoErr \in BOOLEAN, execErr \in BOOLEAN :
         st' = [st EXCEPT ![s] = execSelectKeyrange(st[s], topo, topoErr, execErr)]
    /\ UNCHANGED <<topo, vindexTab, rows>>
    /\ Calls(s)

execSelectScatter(r, t, topoErr, execErr) ==
    LET plan == GetPlan(r.sql)
        srv == SrvKeyspace(t, Table(plan.Table).Keyspace)
        r1 == Logged(r, EvTopo(srv, topoErr))
        r2 == Logged(r1, EvExecute(Rewritten(r.sql), r.bv, srv.ks,
                                   ShardNames(srv.shards), ErrIf(execErr, ExecError)))
    IN  IF topoErr THEN Fail(r1, TopoError)
        ELSE IF execErr THEN Fail(r2, ExecError)
        ELSE Return(r2, 0)

ExecSelectScatter(s) ==
    /\ st[s].pc = "execSelectScatter"
    /\ \E topoErr \in BOOLEAN, execErr \in BOOLEAN :
         st' = [st EXCEPT ![s] = execSelectScatter(st[s], topo, topoErr, execErr)]
    /\ UNCHANGED <<topo, vindexTab, rows>>
    /\ Calls(s)

(***************************************************************************)
(* Router.resolveSingleShard, with the MinKey check of its callers         *)
(* execUpdateEqual and execDeleteEqual.                                    *)
(***************************************************************************)
\* A faulty check that takes MinKey for a routable keyspace id.
IsNoopNever(ksid) == FALSE

\* The MinKey check of resolveSingleShard and of its callers: nothing to do.
IsNoop(ksid) == ksid = MinKey

\* A faulty execDeleteEqual that goes straight to the base DELETE.
AfterResolveSkip(plan) == "dispatchDml"

\* execDeleteEqual: a plan with a subquery runs deleteVindexEntries first.
AfterResolve(plan) ==
    IF plan.Subquery # "" THEN "deleteVindexEntries" ELSE "dispatchDml"

resolveSingleShard(r, t, tab, topoErr, mapOut) ==
    LET plan == GetPlan(r.sql)
        srv == SrvKeyspace(t, Table(plan.Table).Keyspace)
        vx == PlanColVindex(plan).Vindex
        vindexKey == r.keys[1]
        mapFails == mapOut = "error" \/ ~Mappable(vx, vindexKey)
        r1 == Logged(r, EvTopo(srv, topoErr))
        ksid == MapOne(tab, vx, vindexKey)
        r2 == Logged(r1, EvMapOne(vx, vindexKey, ErrIf(mapFails, MapError),
                                  IF mapOut = "short" THEN NoRet ELSE ksid))
        sh == getShardForKeyspaceId(srv.shards, ksid)
        next == IF plan.ID = "DeleteEqual" THEN AfterResolve(plan) ELSE "dispatchDml"
    IN  IF topoErr THEN Fail(r1, TopoError)
        ELSE IF ~Implements(vx, "Unique") THEN Panic(r1, "unexpected")
        ELSE IF mapFails THEN Fail(r2, MapError)
        ELSE IF mapOut = "short" THEN Panic(r2, "unexpected")
        ELSE IF IsNoop(ksid) THEN Return([r2 EXCEPT !.ksid = ksid], 0)
        ELSE IF sh.err # "" THEN Fail(r2, sh.err)
        ELSE [r2 EXCEPT !.pc = next, !.ks = srv.ks, !.shard = sh.shard, !.ksid = ksid]

ResolveSingleShard(s) ==
    /\ st[s].pc = "resolveSingleShard"
    /\ \E topoErr \in BOOLEAN, mapOut \in MapOutcomes :
         st' = [st EXCEPT ![s] =
                  resolveSingleShard(st[s], topo, vindexTab, topoErr, mapOut)]
    /\ UNCHANGED <<topo, vindexTab, rows>>
    /\ Calls(s)

(***************************************************************************)
(* Router.deleteVindexEntries: the subquery on the statement's shard, and  *)
(* then one Delete per owned ColVindex.                                    *)
(***************************************************************************)
\* A faulty deleteVindexEntries that goes on to the Delete calls with no row.
NoRowsIgnored(result) == FALSE

\* len(result.Rows) == 0: nothing to clean up.
NoRows(result) == result = {}

deleteVindexEntries(r, rs, execErr) ==
    LET plan == GetPlan(r.sql)
        matched == Matching(rs, {r.shard}, plan.Table, plan.ColVindex, r.keys[1])
        result == SubqueryRows(matched, plan.SubCols)
        r1 == Logged(r, [EvExecute(<<plan.Subquery>>, r.bv, r.ks, {r.shard},
                                   ErrIf(execErr, ExecError))
                         EXCEPT !.ret = IF execErr THEN NoRet ELSE Cardinality(result)])
    IN  IF execErr THEN Fail(r1, ExecError)
        ELSE IF NoRows(result) THEN [r1 EXCEPT !.pc = "dispatchDml"]
        ELSE IF Len(plan.SubCols) # Len(Owned(plan.Table)) THEN Panic(r1, "unexpected")
        ELSE [r1 EXCEPT !.pc = "vindexDelete", !.subrows = result, !.i = 1]

DeleteVindexEntries(s) ==
    /\ st[s].pc = "deleteVindexEntries"
    /\ \E execErr \in BOOLEAN :
         st' = [st EXCEPT ![s] = deleteVindexEntries(st[s], rows, execErr)]
    /\ UNCHANGED <<topo, vindexTab, rows>>
    /\ Calls(s)

\* A faulty deleteVindexEntries that reads only one row of the subquery.
DeleteIdsOneRow(subrows, i) ==
    LET row == CHOOSE r \in subrows : TRUE
        k == Convert(row[i])
    IN  {IF k.t = "bytes" THEN StrV(k.v) ELSE k}

\* The distinct values of column i of the subquery's rows, a byte string
\* kept as text.
DeleteIds(subrows, i) ==
    LET k(row) == Convert(row[i])
    IN  {IF k(row).t = "bytes" THEN StrV(k(row).v) ELSE k(row) : row \in subrows}

\* The body of the loop over plan.Table.Owned, for the ColVindex at r.i.
vindexDelete(r, convErr, delErr) ==
    LET plan == GetPlan(r.sql)
        owned == Owned(plan.Table)
        vx == owned[r.i].Vindex
        ids == DeleteIds(r.subrows, r.i)
        r1 == Logged(r, EvDelete(vx, ids, r.ksid, ErrIf(delErr, VindexError)))
    IN  IF convErr THEN Fail(r, "convert: bad value")
        ELSE IF ~Implements(vx, "Functional") /\ ~Implements(vx, "Lookup")
             THEN Panic(r, "unexpceted")
        ELSE IF delErr THEN Fail(r1, VindexError)
        ELSE IF r.i = Len(owned) THEN [r1 EXCEPT !.pc = "dispatchDml"]
        ELSE [r1 EXCEPT !.i = r.i + 1]

\* What the Delete call leaves of the vindex tables.
vindexDeleteTab(r, tab, convErr, delErr) ==
    LET plan == GetPlan(r.sql)
        vx == Owned(plan.Table)[r.i].Vindex
        ids == DeleteIds(r.subrows, r.i)
    IN  IF convErr \/ delErr THEN tab
        ELSE IF Implements(vx, "Functional") THEN FunctionalDelete(tab, vx, ids, r.ksid)
        ELSE IF Implements(vx, "Lookup") THEN LookupDelete(tab, vx, ids, r.ksid)
        ELSE tab

VindexDelete(s) ==
    /\ st[s].pc = "vindexDelete"
    /\ \E convErr \in BOOLEAN, delErr \in BOOLEAN :
         /\ st' = [st EXCEPT ![s] = vindexDelete(st[s], convErr, delErr)]
         /\ vindexTab' = vindexDeleteTab(st[s], vindexTab, convErr, delErr)
    /\ UNCHANGED <<topo, rows>>
    /\ Calls(s)

\* A faulty executor that binds an empty keyspace_id.
KsidVarEmpty(ksid) == StrV(MinKey)

\* string(ksid): the value bound to keyspace_id.
KsidVar(ksid) == StrV(ksid)

(***************************************************************************)
(* The tail of Router.execUpdateEqual and Router.execDeleteEqual: bind     *)
(* keyspace_id, append the routing comment, dispatch to the shard.         *)
(***************************************************************************)
dispatchDml(r, rs, tab, execErr) ==
    LET plan == GetPlan(r.sql)
        bv == Put(r.bv, ksidName, KsidVar(r.ksid))
        rewritten == Rewritten(r.sql) \o dmlPostfix(r.ksid)
        r1 == Logged([r EXCEPT !.bv = bv],
                     EvExecute(rewritten, bv, r.ks, {r.shard}, ErrIf(execErr, ExecError)))
        matched == Matching(rs, {r.shard}, plan.Table, plan.ColVindex, r.keys[1])
    IN  IF execErr THEN Fail(r1, ExecError)
        ELSE IF plan.ID = "DeleteEqual"
             THEN Return([r1 EXCEPT !.removed = matched, !.seen = tab], 0)
        ELSE Return(r1, 0)

DispatchDml(s) ==
    /\ st[s].pc = "dispatchDml"
    /\ \E execErr \in BOOLEAN :
         /\ st' = [st EXCEPT ![s] = dispatchDml(st[s], rows, vindexTab, execErr)]
         /\ rows' = rows \ st'[s].removed
    /\ UNCHANGED <<topo, vindexTab>>
    /\ Calls(s)

(***************************************************************************)
(* Router.handlePrimary.  callErr: the Create or Generate call fails;      *)
(* gen: the value Generate allocates.                                      *)
(***************************************************************************)
\* The bind variable "_"+colVindex.Col.
ColVar(col) == "_" \o col

\* A vindex refuses to store a value it cannot map.
CreateFails(tab, vx, val, ksid, callErr) ==
    callErr \/ ~Mappable(vx, val) \/ CreateRefused(tab, vx, val, ksid)

\* A faulty handlePrimary that lets a row with image MinKey through.
UnroutableNever(ksid) == FALSE

\* handlePrimary: a row whose primary image is MinKey cannot be inserted.
Unroutable(ksid) == ksid = MinKey

handlePrimary(r, tab, callErr, gen, mapOut) ==
    LET plan == GetPlan(r.sql)
        colVindex == Table(plan.Table).ColVindexes[1]
        vx == colVindex.Vindex
        supplied == r.keys[1]
        generates == colVindex.Owned /\ supplied = Nil
        creates == colVindex.Owned /\ supplied # Nil
        vindexKey == IF generates THEN IntV(gen) ELSE supplied
        failed == IF generates THEN callErr
                  ELSE CreateFails(tab, vx, supplied, NoKsid, callErr)
        r1 == IF generates
              THEN Logged(r, [EvVindex("Generate", vx, <<>>, NoKsid,
                                       ErrIf(failed, VindexError))
                              EXCEPT !.ret = IF failed THEN NoRet ELSE gen])
              ELSE IF creates
              THEN Logged(r, EvVindex("Create", vx, <<supplied>>, NoKsid,
                                      ErrIf(failed, VindexError)))
              ELSE r
        mapFails == mapOut = "error" \/ ~Mappable(vx, vindexKey)
        tab1 == IF colVindex.Owned THEN FunctionalCreate(tab, vx, vindexKey) ELSE tab
        ksid == MapOne(tab1, vx, vindexKey)
        r2 == Logged(r1, EvMapOne(vx, vindexKey, ErrIf(mapFails, MapError),
                                  IF mapOut = "short" THEN NoRet ELSE ksid))
    IN  IF generates /\ ~Implements(vx, "FunctionalGenerator")
        THEN Fail(r, "value must be supplied for column")
        ELSE IF creates /\ ~Implements(vx, "Functional")
             THEN Panic(r, "interface conversion: not planbuilder.Functional")
        ELSE IF colVindex.Owned /\ failed THEN Fail(r1, VindexError)
        ELSE IF vindexKey = Nil THEN Fail(r1, "value must be supplied for column")
        ELSE IF ~Implements(vx, "Unique")
             THEN Panic(r1, "interface conversion: not planbuilder.Unique")
        ELSE IF mapFails THEN Fail(r2, MapError)
        ELSE IF mapOut = "short" THEN Panic(r2, "index out of range")
        ELSE IF Unroutable(ksid) THEN Fail(r2, "could not map to a keyspace id")
        ELSE [r2 EXCEPT !.pc = "getRouting", !.ksid = ksid,
                        !.generated = IF generates THEN gen ELSE 0,
                        !.bv = Put(r.bv, ColVar(colVindex.Col), vindexKey)]

\* What the primary's Create or Generate leaves of the vindex tables.
handlePrimaryTab(r, tab, callErr, gen) ==
    LET plan == GetPlan(r.sql)
        colVindex == Table(plan.Table).ColVindexes[1]
        vx == colVindex.Vindex
        supplied == r.keys[1]
    IN  IF ~colVindex.Owned THEN tab
        ELSE IF supplied = Nil
             THEN IF Implements(vx, "FunctionalGenerator") /\ ~callErr
                  THEN FunctionalCreate(tab, vx, IntV(gen)) ELSE tab
        ELSE IF Implements(vx, "Functional")
                 /\ ~CreateFails(tab, vx, supplied, NoKsid, callErr)
             THEN FunctionalCreate(tab, vx, supplied) ELSE tab

\* The values a Generate call for the ColVindex at i may allocate (one
\* stand-in when the ColVindex makes no such call).
GenChoices(r, i) ==
    IF Table(GetPlan(r.sql).Table).ColVindexes[i].Owned /\ r.keys[i] = Nil
    THEN 1..MaxVal ELSE {1}

HandlePrimary(s) ==
    /\ st[s].pc = "handlePrimary"
    /\ \E callErr \in BOOLEAN, gen \in GenChoices(st[s], 1), mapOut \in MapOutcomes :
         /\ st' = [st EXCEPT ![s] = handlePrimary(st[s], vindexTab, callErr, gen, mapOut)]
         /\ vindexTab' = handlePrimaryTab(st[s], vindexTab, callErr, gen)
    /\ UNCHANGED <<topo, rows>>
    /\ Calls(s)

(***************************************************************************)
(* Router.getRouting                                                       *)
(***************************************************************************)
getRouting(r, t, topoErr) ==
    LET plan == GetPlan(r.sql)
        srv == SrvKeyspace(t, Table(plan.Table).Keyspace)
        sh == getShardForKeyspaceId(srv.shards, r.ksid)
        r1 == Logged(r, EvTopo(srv, topoErr))
    IN  IF topoErr THEN Fail(r1, TopoError)
        ELSE IF sh.err # "" THEN Fail(r1, sh.err)
        ELSE [r1 EXCEPT !.ks = srv.ks, !.shard = sh.shard, !.i = 2,
                        !.pc = IF Len(r.keys) >= 2 THEN "handleNonPrimary"
                               ELSE "dispatchInsert"]

GetRouting(s) ==
    /\ st[s].pc = "getRouting"
    /\ \E topoErr \in BOOLEAN :
         st' = [st EXCEPT ![s] = getRouting(st[s], topo, topoErr)]
    /\ UNCHANGED <<topo, vindexTab, rows>>
    /\ Calls(s)

(***************************************************************************)
(* Router.handleNonPrimary for the ColVindex at r.i, with the body of the  *)
(* loop of execInsertSharded that calls it.  callErr: the vindex call      *)
(* fails; gen: the value Generate allocates; nilRes: ReverseMap finds no   *)
(* value.                                                                  *)
(***************************************************************************)
\* A faulty handleNonPrimary that treats every ColVindex as unowned.
SecondaryCaseUnowned(owned, supplied) ==
    IF supplied = Nil THEN "ReverseMap" ELSE "Verify"

\* The four cases of handleNonPrimary: owned or not, value supplied or not.
SecondaryCase(owned, supplied) ==
    IF owned
    THEN IF supplied = Nil THEN "Generate" ELSE "Create"
    ELSE IF supplied = Nil THEN "ReverseMap" ELSE "Verify"

\* A faulty execInsertSharded that keeps the last generated value.
SecondGeneratedIgnored(newgen, generated) == FALSE

\* A faulty handleNonPrimary that takes every Verify answer for true.
VerifyRejectsNever(ok) == FALSE

\* handleNonPrimary: Verify answered false.
VerifyRejects(ok) == ~ok

\* A faulty execInsertSharded that hands the secondaries no keyspace id.
SecondaryKsidEmpty(r) == MinKey

\* The keyspace id execInsertSharded hands handleNonPrimary: the primary's.
SecondaryKsid(r) == r.ksid

\* execInsertSharded: a second ColVindex generated a value.
SecondGenerated(newgen, generated) == newgen # 0 /\ generated # 0

handleNonPrimary(r, tab, callErr, gen, nilRes) ==
    LET plan == GetPlan(r.sql)
        colVindex == Table(plan.Table).ColVindexes[r.i]
        vx == colVindex.Vindex
        supplied == r.keys[r.i]
        case == SecondaryCase(colVindex.Owned, supplied)
        failed == CASE case = "Generate" ->
                         CreateFails(tab, vx, IntV(gen), SecondaryKsid(r), callErr)
                    [] case = "Create" ->
                         CreateFails(tab, vx, supplied, SecondaryKsid(r), callErr)
                    [] OTHER -> callErr
        vindexKey == CASE case = "Generate" -> IntV(gen)
                       [] case = "ReverseMap" ->
                            IF nilRes THEN Nil ELSE ReverseMapOne(vx, SecondaryKsid(r))
                       [] OTHER -> supplied
        arg == IF case \in {"ReverseMap", "Generate"} THEN <<>> ELSE <<supplied>>
        verified == VerifyOne(tab, vx, supplied, SecondaryKsid(r))
        r1 == Logged(r, [EvVindex(case, vx, arg, SecondaryKsid(r), ErrIf(failed, VindexError))
                         EXCEPT !.ret = CASE failed -> NoRet
                                          [] case = "Generate" -> gen
                                          [] case = "Verify" -> IF verified THEN 1 ELSE 0
                                          [] case = "ReverseMap" /\ vindexKey # Nil ->
                                               vindexKey.v
                                          [] OTHER -> NoRet])
        newgen == IF case = "Generate" THEN gen ELSE 0
        r2 == [r1 EXCEPT !.bv = Put(r.bv, ColVar(colVindex.Col), vindexKey)]
        last == r.i = Len(r.keys)
    IN  IF case = "Generate" /\ ~Implements(vx, "LookupGenerator")
        THEN Fail(r, "value must be supplied for column")
        ELSE IF case = "Create" /\ ~Implements(vx, "Lookup")
             THEN Panic(r, "interface conversion: not planbuilder.Lookup")
        ELSE IF case = "ReverseMap" /\ ~Implements(vx, "Reversible")
             THEN Fail(r, "value must be supplied for column")
        ELSE IF failed THEN Fail(r1, VindexError)
        ELSE IF case = "ReverseMap" /\ vindexKey = Nil
             THEN Fail(r1, "could not compute value for column")
        ELSE IF case = "Verify" /\ VerifyRejects(verified)
             THEN Fail(r1, "value does not map to keyspace id")
        ELSE IF SecondGenerated(newgen, r.generated)
             THEN Fail(r2, "insert generated more than one value")
        ELSE [r2 EXCEPT !.generated = IF newgen # 0 THEN newgen ELSE @,
                        !.i = r.i + 1,
                        !.pc = IF last THEN "dispatchInsert" ELSE @]

\* What the secondary's Create or Generate leaves of the vindex tables.
handleNonPrimaryTab(r, tab, callErr, gen) ==
    LET plan == GetPlan(r.sql)
        colVindex == Table(plan.Table).ColVindexes[r.i]
        vx == colVindex.Vindex
        supplied == r.keys[r.i]
        case == SecondaryCase(colVindex.Owned, supplied)
    IN  IF case \notin {"Generate", "Create"} THEN tab
        ELSE IF case = "Generate"
             THEN IF Implements(vx, "LookupGenerator")
                     /\ ~CreateFails(tab, vx, IntV(gen), SecondaryKsid(r), callErr)
                  THEN LookupCreate(tab, vx, IntV(gen), SecondaryKsid(r)) ELSE tab
        ELSE IF Implements(vx, "Lookup")
                 /\ ~CreateFails(tab, vx, supplied, SecondaryKsid(r), callErr)
             THEN LookupCreate(tab, vx, supplied, SecondaryKsid(r)) ELSE tab

\* Whether ReverseMap finds no value (FALSE when it is not called).
NilChoices(r) ==
    LET colVindex == Table(GetPlan(r.sql).Table).ColVindexes[r.i]
    IN  IF ~colVindex.Owned /\ r.keys[r.i] = Nil THEN BOOLEAN ELSE {FALSE}

HandleNonPrimary(s) ==
    /\ st[s].pc = "handleNonPrimary"
    /\ \E callErr \in BOOLEAN, gen \in GenChoices(st[s], st[s].i),
          nilRes \in NilChoices(st[s]) :
         /\ st' = [st EXCEPT ![s] =
                     handleNonPrimary(st[s], vindexTab, callErr, gen, nilRes)]
         /\ vindexTab' = handleNonPrimaryTab(st[s], vindexTab, callErr, gen)
    /\ UNCHANGED <<topo, rows>>
    /\ Calls(s)

(***************************************************************************)
(* The tail of Router.execInsertSharded: bind keyspace_id, append the      *)
(* routing comment, dispatch, reconcile the insert id.  backendId is the   *)
(* insert id the shard returns (0: none).                                  *)
(***************************************************************************)
BackendIds == {0, MaxVal + 1}

\* The row the INSERT writes: the "_"+col bind variables, in column order.
InsertedRow(r) ==
    LET cvs == Table(GetPlan(r.sql).Table).ColVindexes
    IN  Row(GetPlan(r.sql).Table,
            [i \in 1..Len(cvs) |-> r.bv[ColVar(cvs[i].Col)]], r.ksid)

\* A faulty execInsertSharded that overwrites the insert id of the shard.
InsertIdOverwritten(generated, backendId) ==
    [err |-> "", insertId |-> IF generated # 0 THEN generated ELSE backendId]

\* execInsertSharded: the insert id of the result, given the value the
\* vindexes generated (0: none) and the insert id the shard returned.
InsertId(generated, backendId) ==
    IF generated # 0
    THEN IF backendId # 0
         THEN [err |-> "vindex and db generated a value each for insert", insertId |-> 0]
         ELSE [err |-> "", insertId |-> generated]
    ELSE [err |-> "", insertId |-> backendId]

\* A faulty execInsertSharded that sends the INSERT again when it fails.
InsertRetried(r) == [r EXCEPT !.pc = "dispatchInsert"]

\* execInsertSharded: the error of the dispatch is returned.
InsertFailed(r) == Fail(r, ExecError)

dispatchInsert(r, tab, execErr, backendId) ==
    LET bv == Put(r.bv, ksidName, KsidVar(r.ksid))
        rewritten == Rewritten(r.sql) \o dmlPostfix(r.ksid)
        r1 == Logged([r EXCEPT !.bv = bv, !.seen = IF execErr THEN {} ELSE tab],
                     [EvExecute(rewritten, bv, r.ks, {r.shard}, ErrIf(execErr, ExecError))
                      EXCEPT !.ret = IF execErr THEN NoRet ELSE backendId])
        id == InsertId(r.generated, backendId)
    IN  IF execErr THEN InsertFailed(r1)
        ELSE IF id.err # "" THEN Fail(r1, id.err)
        ELSE Return(r1, id.insertId)

DispatchInsert(s) ==
    /\ st[s].pc = "dispatchInsert"
    /\ \E execErr \in BOOLEAN, backendId \in BackendIds :
         /\ st' = [st EXCEPT ![s] = dispatchInsert(st[s], vindexTab, execErr, backendId)]
         /\ rows' = IF execErr THEN rows ELSE rows \cup {InsertedRow(st[s])}
    /\ UNCHANGED <<topo, vindexTab>>
    /\ Calls(s)

(***************************************************************************)
(* The topology service changes the serving graph between any two calls    *)
(* of a statement.                                                         *)
(***************************************************************************)
TopoChange ==
    /\ \E s \in Sessions : st[s].pc \notin {"idle", "done"}
    /\ \E t \in Topologies \ {topo} : topo' = t
    /\ UNCHANGED <<vindexTab, rows, st, overlap>>

(***************************************************************************)
(* The world the statements start in: up to MaxRows rows of the tables     *)
(* with owned vindexes, each as a successful insert left it, under any     *)
(* serving topology.                                                       *)
(***************************************************************************)
CandidateRows ==
    {Row(tb, <<IntV(a), IntV(b)>>, Hash(a)) :
        tb \in {"user", "music"}, a \in 1..(MaxVal - 1), b \in 1..MaxVal}
    \cup {Row("opaque_owned", <<IntV(1), IntV(1)>>, Hash(1))}

Mirrors(R) == UNION {Mirror(r) : r \in R}

\* No unique lookup table holds two keyspace ids for a value.
UniqueHolds(tab) ==
    \A e \in tab, f \in tab :
        (e.vx = f.vx /\ e.val = f.val /\ Implements(e.vx, "Unique")) => e.ksid = f.ksid

\* The rows share a column value (or there is at most one).
Related(R) ==
    \E c \in 1..2 : \A r1 \in R, r2 \in R : r1.table = r2.table /\ r1.vals[c] = r2.vals[c]

\* The sets of at most n candidate rows.
RECURSIVE RowSets(_)
RowSets(n) ==
    IF n = 0 THEN {{}}
    ELSE LET smaller == RowSets(n - 1)
         IN  smaller \cup {R \cup {r} : R \in smaller, r \in CandidateRows}

InitRows ==
    {R \in RowSets(MaxRows) : Related(R) /\ UniqueHolds(Mirrors(R))}

Init ==
    /\ topo \in Topologies
    /\ rows \in InitRows
    /\ vindexTab = Mirrors(rows)
    /\ st = [s \in Sessions |-> Idle]
    /\ overlap = {}

\* One call of the statement of session s.
Step(s) ==
    \/ ExecUnsharded(s)
    \/ ExecSelectEqual(s)
    \/ ExecSelectIN(s)
    \/ ExecSelectKeyrange(s)
    \/ ExecSelectScatter(s)
    \/ ResolveSingleShard(s)
    \/ DeleteVindexEntries(s)
    \/ VindexDelete(s)
    \/ DispatchDml(s)
    \/ HandlePrimary(s)
    \/ GetRouting(s)
    \/ HandleNonPrimary(s)
    \/ DispatchInsert(s)

\* One statement of any plan kind, under a changing topology.
Next ==
    \/ \E sql \in Sqls : \E q \in Queries(sql) : Execute("s1", sql, q)
    \/ Step("s1")
    \/ TopoChange

Spec == Init /\ [][Next]_vars

(***************************************************************************)
(* Two sessions, each inserting a row of `user` or deleting the rows of a  *)
(* user id, their calls interleaved.                                       *)
(***************************************************************************)
ConcSqls == {"insert_user", "delete_user_by_id"}

ConcQueries(sql) ==
    {q \in Queries(sql) : ~q.nilMap /\ q.m # EmptyMap /\ q.m["id"] = IntV(1)}

\* One call of a DeleteEqual or InsertSharded statement of session s.
StepDml(s) ==
    \/ ResolveSingleShard(s)
    \/ DeleteVindexEntries(s)
    \/ VindexDelete(s)
    \/ DispatchDml(s)
    \/ HandlePrimary(s)
    \/ GetRouting(s)
    \/ HandleNonPrimary(s)
    \/ DispatchInsert(s)

NextConc ==
    \/ \E s \in Sessions, sql \in ConcSqls :
          \E q \in ConcQueries(sql) : Execute(s, sql, q)
    \/ \E s \in Sessions : StepDml(s)

\* The rows of user 1 that are there when the two statements start.
InitConc ==
    /\ topo = "serving"
    /\ rows \in {R \in InitRows : \A r \in R : r.table = "user" /\ r.vals[1] = IntV(1)}
    /\ vindexTab = Mirrors(rows)
    /\ st = [s \in Sessions |-> Idle]
    /\ overlap = {}

SpecConc == InitConc /\ [][NextConc]_vars


(***************************************************************************)
(* Properties.  They read the calls a statement made from its log.         *)
(***************************************************************************)
\* The plan and the ColVindexes of the table of every SQL text.
Plans == [sql \in Sqls \cup {""} |-> GetPlan(sql)]
PlanColVindexes == [sql \in Sqls \cup {""} |-> Table(GetPlan(sql).Table).ColVindexes]

Plan(s) == Plans[st[s].sql]
Idx(s) == 1..Len(st[s].log)
Done(s) == st[s].pc = "done"

\* Positions in the log of: the subquery, the statement itself, the vindex
\* Delete calls.
Subqueries(s) ==
    {i \in Idx(s) : st[s].log[i].op = "Execute" /\ st[s].log[i].sql = <<Plan(s).Subquery>>}
Base(s) ==
    {i \in Idx(s) : st[s].log[i].op \in {"Execute", "ExecuteMulti"}} \ Subqueries(s)
Deletes(s) == {i \in Idx(s) : st[s].log[i].op = "Delete"}

\* C1: a DeleteEqual whose plan has a subquery runs the subquery first, then
\* one Delete per owned vindex (when the subquery returned rows), then the
\* base DELETE, all without error; once the subquery or a Delete has
\* failed the statement has ended in that error and no base DELETE is sent.
C1_DeleteOrder ==
    \A s \in Sessions :
        LET plan == Plan(s)
            log == st[s].log
            owned == Owned(plan.Table)
            n == IF st[s].subrows = {} THEN 0 ELSE Len(owned)
        IN  (plan.ID = "DeleteEqual" /\ plan.Subquery # "") =>
              /\ \A d \in Deletes(s) : \E j \in Subqueries(s) : j < d
              /\ \A i \in Base(s) :
                    /\ i = Len(log)
                    /\ i > n + 1
                    /\ Subqueries(s) = {i - n - 1}
                    /\ Deletes(s) = (i - n)..(i - 1)
                    /\ \A j \in (i - n - 1)..(i - 1) : log[j].err = ""
                    /\ \A k \in 1..n :
                          /\ log[i - n - 1 + k].vx = owned[k].Vindex
                          /\ log[i - n - 1 + k].ksid = st[s].ksid
              /\ (\E j \in Subqueries(s) \cup Deletes(s) : log[j].err # "") =>
                    /\ Base(s) = {}
                    /\ Done(s)
                    /\ st[s].res.status = "error"

C1_Witness ==
    \E s \in Sessions :
        /\ Plan(s).ID = "DeleteEqual"
        /\ Plan(s).Subquery # ""
        /\ Cardinality(Deletes(s)) = 2
        /\ Base(s) # {}
        /\ st[s].res.status = "ok"

\* Positions in the log of the Map calls that returned MinKey.
MinKeyMaps(s) ==
    {i \in Idx(s) : /\ st[s].log[i].op = "Map"
                    /\ st[s].log[i].err = ""
                    /\ st[s].log[i].ret = MinKey}
ColVindexes(s) == PlanColVindexes[st[s].sql]

\* C2: when an InsertSharded dispatches its base INSERT, every owned
\* ColVindex of the table has had a successful Create or Generate for the
\* value the row carries in that column, the secondary ones bound to the
\* keyspace id the primary vindex mapped the row to, which is the one the
\* INSERT carries; the INSERT is the statement's last call.
C2_CreateBeforeInsert ==
    \A s \in Sessions :
        Plan(s).ID = "InsertSharded" =>
          \A i \in Base(s) :
            LET log == st[s].log
                cvs == ColVindexes(s)
                bv == log[i].bv
            IN  /\ i = Len(log)
                /\ \E m \in 1..(i - 1) :
                      /\ log[m].op = "Map"
                      /\ log[m].vx = cvs[1].Vindex
                      /\ log[m].err = ""
                      /\ log[m].keys = <<bv[ColVar(cvs[1].Col)]>>
                      /\ bv[ksidName] = StrV(log[m].ret)
                      /\ \A c \in 1..Len(cvs) :
                            cvs[c].Owned =>
                              \E j \in 1..(i - 1) :
                                /\ log[j].op \in {"Create", "Generate"}
                                /\ log[j].err = ""
                                /\ log[j].vx = cvs[c].Vindex
                                /\ IF log[j].op = "Create"
                                   THEN log[j].keys = <<bv[ColVar(cvs[c].Col)]>>
                                   ELSE IntV(log[j].ret) = bv[ColVar(cvs[c].Col)]
                                /\ IF c = 1 THEN j < m
                                   ELSE j > m /\ log[j].ksid = log[m].ret

C2_Witness ==
    \E s \in Sessions :
        /\ Plan(s).ID = "InsertSharded"
        /\ Base(s) # {}
        /\ \A c \in 1..2 : ColVindexes(s)[c].Owned
        /\ \E j \in Idx(s) : st[s].log[j].op = "Create" /\ st[s].log[j].ksid # NoKsid
        /\ st[s].res.status = "ok"

\* C4: an UpdateEqual or DeleteEqual whose vindex maps the key to MinKey
\* ends with an empty successful result; the Map is its last call, so it
\* runs no subquery, deletes no vindex entry, dispatches nothing, and it
\* binds no keyspace_id.
C4_MinKeyNoop ==
    \A s \in Sessions :
        Plan(s).ID \in {"UpdateEqual", "DeleteEqual"} =>
          \A i \in MinKeyMaps(s) :
            /\ Done(s)
            /\ st[s].res = [status |-> "ok", err |-> "", insertId |-> 0]
            /\ i = Len(st[s].log)
            /\ \A j \in Idx(s) : st[s].log[j].op \in {"getKeyspaceShards", "Map"}
            /\ ksidName \notin DOMAIN st[s].bv

C4_Witness ==
    \E s \in Sessions :
        /\ Plan(s).ID = "DeleteEqual"
        /\ Plan(s).Subquery # ""
        /\ MinKeyMaps(s) # {}
        /\ Done(s)

\* C5 as stated: an InsertSharded whose primary vindex maps the row to
\* MinKey fails having made no Create, Generate or Execute call at all.
C5_NoSideEffect ==
    \A s \in Sessions :
        (Plan(s).ID = "InsertSharded" /\ MinKeyMaps(s) # {}) =>
          /\ Done(s)
          /\ st[s].res.status = "error"
          /\ \A j \in Idx(s) : st[s].log[j].op = "Map"

\* C5: an InsertSharded whose primary vindex maps the row to MinKey fails
\* with an error; the Map is its last call, so no secondary ColVindex is
\* touched and nothing is dispatched; the only call before the Map is the
\* Create or Generate of the primary ColVindex when that one is owned.
C5_UnroutableInsert ==
    \A s \in Sessions :
        Plan(s).ID = "InsertSharded" =>
          \A i \in MinKeyMaps(s) :
            /\ Done(s)
            /\ st[s].res.status = "error"
            /\ i = Len(st[s].log)
            /\ Base(s) = {}
            /\ i = IF ColVindexes(s)[1].Owned THEN 2 ELSE 1
            /\ \A j \in 1..(i - 1) :
                  /\ st[s].log[j].op \in {"Create", "Generate"}
                  /\ st[s].log[j].vx = ColVindexes(s)[1].Vindex
                  /\ st[s].log[j].ksid = NoKsid

C5_Witness ==
    \E s \in Sessions :
        /\ Plan(s).ID = "InsertSharded"
        /\ MinKeyMaps(s) # {}
        /\ st[s].log[1].op = "Create"
        /\ st[s].res.status = "error"

\* What an owned-vindex mirror asks of a finished statement, seen in the
\* vindex tables as they were when its base statement was dispatched: the
\* entries of an inserted row are there and Map finds the row's keyspace
\* id; no entry of a row the DELETE removed is left.
Mirrored(s) ==
    /\ (Plan(s).ID = "InsertSharded" /\ st[s].res.status = "ok") =>
          LET row == InsertedRow(st[s])
              cvs == ColVindexes(s)
          IN  /\ Mirror(row) \subseteq st[s].seen
              /\ \A c \in 1..Len(cvs) :
                    cvs[c].Owned =>
                      IF Implements(cvs[c].Vindex, "Unique")
                      THEN UniqueMap(st[s].seen, cvs[c].Vindex, <<row.vals[c]>>)
                             = <<row.ksid>>
                      ELSE row.ksid \in SeqToSet(
                             NonUniqueMap(st[s].seen, cvs[c].Vindex, <<row.vals[c]>>)[1])
    /\ (Plan(s).ID = "DeleteEqual" /\ st[s].res.status = "ok") =>
          \A row \in st[s].removed : Mirror(row) \cap st[s].seen = {}

\* C3 as stated: the mirror holds for every finished insert and delete,
\* whatever other statement ran in between its calls.
C3_MirrorAnyInterleaving == \A s \in Sessions : Mirrored(s)

\* C3: the mirror holds for every finished insert and delete none of whose
\* calls fell between the calls of another statement, in any order of such
\* statements.
C3_MirrorSerial == \A s \in Sessions \ overlap : Mirrored(s)

C3_Witness ==
    \E s \in Sessions \ overlap, o \in Sessions \ overlap :
        /\ Plan(o).ID = "InsertSharded"
        /\ st[o].res.status = "ok"
        /\ Plan(s).ID = "DeleteEqual"
        /\ st[s].res.status = "ok"
        /\ InsertedRow(st[o]) \in st[s].removed
        /\ Cardinality(st[s].removed) = 2

\* Positions in the log of the Generate calls that returned a value.
Generated(s) ==
    {i \in Idx(s) : st[s].log[i].op = "Generate" /\ st[s].log[i].err = ""}

\* C6 as stated: in an InsertSharded at most one ColVindex generates a
\* value.
C6_AtMostOneGenerate ==
    \A s \in Sessions :
        Plan(s).ID = "InsertSharded" => Cardinality(Generated(s)) <= 1

\* C6: an InsertSharded that dispatches its base INSERT has generated at
\* most one value; a second ColVindex may generate one, and then that
\* Generate is the statement's last call: it fails with "insert generated
\* more than one value" and dispatches nothing.
C6_OneGeneratedKept ==
    \A s \in Sessions :
        Plan(s).ID = "InsertSharded" =>
          /\ Base(s) # {} => Cardinality(Generated(s)) <= 1
          /\ Cardinality(Generated(s)) <= 2
          /\ Cardinality(Generated(s)) = 2 =>
                /\ Done(s)
                /\ st[s].res.status = "error"
                /\ st[s].res.err = "insert generated more than one value"
                /\ Len(st[s].log) \in Generated(s)
                /\ Base(s) = {}

C6_Witness ==
    \E s \in Sessions :
        /\ Plan(s).ID = "InsertSharded"
        /\ Cardinality(Generated(s)) = 2
        /\ st[s].res.status = "error"

\* C7: an InsertSharded whose base INSERT succeeded at the shard returns an
\* error when a value was generated and the shard returned an insert id
\* too; otherwise it succeeds, and its insert id is the generated value
\* when exactly one value was generated (and the shard returned none),
\* else the insert id of the shard; no insert succeeds without its INSERT.
C7_InsertId ==
    \A s \in Sessions :
        (Plan(s).ID = "InsertSharded" /\ Done(s)) =>
          /\ st[s].res.status = "ok" => Base(s) # {}
          /\ \A i \in Base(s) :
                LET b == st[s].log[i].ret
                    G == Generated(s)
                    routerProvided == st[s].res.insertId # b
                IN  st[s].log[i].err = "" =>
                      IF G # {} /\ b # 0
                      THEN st[s].res.status = "error"
                      ELSE /\ st[s].res.status = "ok"
                           /\ routerProvided <=> (Cardinality(G) = 1 /\ b = 0)
                           /\ routerProvided =>
                                 \A g \in G : st[s].res.insertId = st[s].log[g].ret

C7_Witness ==
    \E s \in Sessions :
        /\ Plan(s).ID = "InsertSharded"
        /\ st[s].res.status = "ok"
        /\ Cardinality(Generated(s)) = 1
        /\ \E g \in Generated(s) : st[s].res.insertId = st[s].log[g].ret

\* Positions in the log of the topology lookups and Map calls that failed.
ResolveErrors(s) ==
    {i \in Idx(s) : /\ st[s].log[i].op \in {"getKeyspaceShards", "Map"}
                    /\ st[s].log[i].err # ""}

\* C8: a statement whose topology lookup or Map call failed has ended in
\* that error and has made no call to the scatter executor.
C8_ResolveErrorReturned ==
    \A s \in Sessions :
        \A i \in ResolveErrors(s) :
            /\ Done(s)
            /\ st[s].res.status = "error"
            /\ st[s].res.err = st[s].log[i].err
            /\ Base(s) \cup Subqueries(s) = {}

\* The tail of a sequence of tokens.
Suffix(seq, n) == SubSeq(seq, Len(seq) - n + 1, Len(seq))

UnshardedDml == {"UpdateUnsharded", "DeleteUnsharded", "InsertUnsharded"}
ShardedDml == {"UpdateEqual", "DeleteEqual", "InsertSharded"}

\* C9 as stated: the base statement of every DML plan, unsharded ones
\* included, is sent with SQL that ends in a routing comment.
C9_RoutingCommentAll ==
    \A s \in Sessions :
        Plan(s).ID \in UnshardedDml \cup ShardedDml =>
          \A i \in Base(s) :
            \E ksid \in Ksids :
                /\ Len(st[s].log[i].sql) > Len(dmlPostfix(ksid))
                /\ Suffix(st[s].log[i].sql, Len(dmlPostfix(ksid))) = dmlPostfix(ksid)

\* C9: the base statement of an UpdateEqual, DeleteEqual or InsertSharded
\* is sent as the plan's rewritten SQL followed by the routing comment of
\* the keyspace id its Map call returned; an unsharded DML is sent as the
\* query's own SQL, with no comment.
C9_RoutingComment ==
    \A s \in Sessions :
        \A i \in Base(s) :
            /\ Plan(s).ID \in ShardedDml =>
                  \E m \in 1..(i - 1) :
                      /\ st[s].log[m].op = "Map"
                      /\ st[s].log[m].err = ""
                      /\ st[s].log[m].ret \in Ksids \ {MinKey}
                      /\ st[s].log[i].sql =
                           Rewritten(st[s].sql) \o dmlPostfix(st[s].log[m].ret)
                      /\ Suffix(st[s].log[i].sql, 3) =
                           <<" /* _routing keyspace_id:", ToString(st[s].log[m].ret), " */">>
            /\ Plan(s).ID \in UnshardedDml => st[s].log[i].sql = <<st[s].sql>>

C9_Witness ==
    \E s \in Sessions :
        /\ Plan(s).ID = "UpdateEqual"
        /\ Base(s) # {}
        /\ st[s].res.status = "ok"
        /\ st[s].ksid = MaxVal - 1

\* C10: no statement ends in a panic.
C10_NoPanic == \A s \in Sessions : st[s].res.status # "panic"

\* Whether the Map call logged at m returned, for some occurrence of key k,
\* a keyspace id other than MinKey in the range of shard sh.
RoutesTo(s, m, k, sh) ==
    \E j \in 1..Len(st[s].log[m].rets) :
        /\ st[s].log[m].keys[j] = k
        /\ \E ksid \in SeqToSet(st[s].log[m].rets[j]) :
              ksid # MinKey /\ Contains(sh, ksid)

\* The keys of the ListVarName bundle an ExecuteMulti call sends to a shard.
Bundle(ev, name) ==
    IF name \in DOMAIN ev.shardVars
    THEN SeqToSet(ev.shardVars[name][ListVarName].v) ELSE {}

RoutingVindex(s) ==
    IF Plan(s).ID = "InsertSharded" THEN ColVindexes(s)[1].Vindex
    ELSE PlanColVindex(Plan(s)).Vindex
RoutingKey(s, ev) ==
    IF Plan(s).ID = "InsertSharded" THEN ev.bv[ColVar(ColVindexes(s)[1].Col)]
    ELSE st[s].keys[1]

\* Positions in the log of the topology lookups.
Lookups(s) == {i \in Idx(s) : st[s].log[i].op = "getKeyspaceShards"}

\* C12: the base statement of an UpdateEqual, DeleteEqual or InsertSharded
\* carries as keyspace_id the keyspace id the routing vindex's Map returned
\* for the row's key, and goes to one shard of the keyspace the statement's
\* topology lookup returned: the shard whose range holds that keyspace id.
C12_KeyspaceIdBound ==
    \A s \in Sessions :
        Plan(s).ID \in ShardedDml =>
          \A i \in Base(s) :
            LET ev == st[s].log[i]
                log == st[s].log
            IN  /\ ev.op = "Execute"
                /\ \E m \in 1..(i - 1) :
                      /\ log[m].op = "Map"
                      /\ log[m].vx = RoutingVindex(s)
                      /\ log[m].keys = <<RoutingKey(s, ev)>>
                      /\ log[m].err = ""
                      /\ ev.bv[ksidName] = StrV(log[m].ret)
                      /\ Cardinality(Lookups(s)) = 1
                      /\ \A t \in Lookups(s) :
                            /\ t < i
                            /\ log[t].err = ""
                            /\ ev.ks = log[t].ks
                            /\ \E sh \in log[t].shards :
                                  /\ ev.shards = {sh}
                                  /\ Contains(KnownShard(sh), log[m].ret)

C12_Witness ==
    \E s \in Sessions :
        /\ Plan(s).ID = "InsertSharded"
        /\ st[s].res.status = "ok"
        /\ \E i \in Base(s) :
              /\ st[s].log[i].shards = {"2-"}
              /\ st[s].log[i].bv[ksidName] = StrV(2)

\* Positions in the log of the calls handleNonPrimary makes: a Verify, a
\* ReverseMap, or a Create or Generate that is given a keyspace id.
Secondaries(s) ==
    {i \in Idx(s) :
        \/ st[s].log[i].op \in {"Verify", "ReverseMap"}
        \/ st[s].log[i].op \in {"Create", "Generate"} /\ st[s].log[i].ksid # NoKsid}

\* Positions in the log of the primary ColVindex's own Create or Generate.
Primaries(s) ==
    {i \in Idx(s) :
        st[s].log[i].op \in {"Create", "Generate"} /\ st[s].log[i].ksid = NoKsid}

\* C13: in an InsertSharded every call on a secondary ColVindex comes after
\* the primary's successful Map (and, for an owned primary, after its
\* successful Create or Generate) and is given the keyspace id that Map
\* returned; the n-th such call is on ColVindex n+1 and follows the
\* success of the calls before it; so a failed primary step leaves no
\* secondary touched.
C13_PrimaryFirst ==
    \A s \in Sessions :
        Plan(s).ID = "InsertSharded" =>
          LET log == st[s].log
              cvs == ColVindexes(s)
          IN  /\ \A p \in Primaries(s) : log[p].vx = cvs[1].Vindex /\ cvs[1].Owned
              /\ \A i \in Secondaries(s) :
                    LET n == Cardinality({j \in Secondaries(s) : j <= i})
                    IN  /\ n + 1 <= Len(cvs)
                        /\ log[i].vx = cvs[n + 1].Vindex
                        /\ log[i].op = SecondaryCase(cvs[n + 1].Owned, st[s].keys[n + 1])
                        /\ \A j \in Secondaries(s) : j < i => log[j].err = ""
                        /\ \E m \in 1..(i - 1) :
                              /\ log[m].op = "Map"
                              /\ log[m].vx = cvs[1].Vindex
                              /\ log[m].err = ""
                              /\ log[m].ret # MinKey
                              /\ log[i].ksid = log[m].ret
                              /\ \A p \in Primaries(s) : p < m /\ log[p].err = ""
                              /\ cvs[1].Owned => Primaries(s) # {}
              /\ (\/ \E p \in Primaries(s) : log[p].err # ""
                  \/ \E m \in Idx(s) : log[m].op = "Map" /\ log[m].err # ""
                  \/ MinKeyMaps(s) # {}) => Secondaries(s) = {}

C13_Witness ==
    \E s \in Sessions :
        /\ Plan(s).ID = "InsertSharded"
        /\ Cardinality(Secondaries(s)) = 2
        /\ st[s].res.status = "ok"

\* The secondary ColVindexes of the table that are not owned, by whether
\* the statement supplies their value.
Checked(s) ==
    {c \in 2..Len(ColVindexes(s)) : ~ColVindexes(s)[c].Owned /\ st[s].keys[c] # Nil}
Computed(s) ==
    {c \in 2..Len(ColVindexes(s)) : ~ColVindexes(s)[c].Owned /\ st[s].keys[c] = Nil}

\* C14: when an InsertSharded dispatches its base INSERT, Verify has
\* answered true for every supplied value of a non-owned secondary
\* ColVindex, with the primary's keyspace id, and ReverseMap of that
\* keyspace id has given every missing value of one, which the INSERT
\* carries; a Verify that answers false or a ReverseMap that answers nil
\* is the last call of a statement that fails; a statement that needs the
\* value of a vindex that is not Reversible never calls it and never
\* succeeds.
C14_SecondaryConsistent ==
    \A s \in Sessions :
        (Plan(s).ID = "InsertSharded" /\ st[s].keys # <<>>) =>
          LET log == st[s].log
              cvs == ColVindexes(s)
          IN  /\ \A i \in Base(s) : \E m \in 1..(i - 1) :
                    /\ log[m].op = "Map"
                    /\ log[m].err = ""
                    /\ \A c \in Checked(s) : \E j \in (m + 1)..(i - 1) :
                          /\ log[j].op = "Verify"
                          /\ log[j].vx = cvs[c].Vindex
                          /\ log[j].keys = <<st[s].keys[c]>>
                          /\ log[j].ksid = log[m].ret
                          /\ log[j].err = ""
                          /\ log[j].ret = 1
                    /\ \A c \in Computed(s) : \E j \in (m + 1)..(i - 1) :
                          /\ log[j].op = "ReverseMap"
                          /\ log[j].vx = cvs[c].Vindex
                          /\ Implements(cvs[c].Vindex, "Reversible")
                          /\ log[j].ksid = log[m].ret
                          /\ log[j].err = ""
                          /\ log[j].ret # NoRet
                          /\ log[i].bv[ColVar(cvs[c].Col)] = IntV(log[j].ret)
              /\ \A j \in Idx(s) :
                    (/\ log[j].op \in {"Verify", "ReverseMap"}
                     /\ log[j].err = ""
                     /\ log[j].ret \in {0, NoRet}) =>
                       /\ j = Len(log)
                       /\ Done(s)
                       /\ st[s].res.status = "error"
                       /\ Base(s) = {}
              /\ \A c \in Computed(s) :
                    ~Implements(cvs[c].Vindex, "Reversible") =>
                      /\ st[s].res.status # "ok"
                      /\ \A j \in Idx(s) : log[j].op # "ReverseMap"

C14_Witness ==
    \E s \in Sessions :
        /\ Plan(s).ID = "InsertSharded"
        /\ st[s].res.status = "error"
        /\ \E j \in Idx(s) :
              /\ st[s].log[j].op = "Verify"
              /\ st[s].log[j].err = ""
              /\ st[s].log[j].ret = 0

\* C15: when the subquery of a DeleteEqual returns no row, the statement
\* calls no vindex Delete and its next call is the base DELETE: the plan's
\* rewritten SQL with the routing comment of the statement's keyspace id,
\* with keyspace_id bound to it, on the keyspace and shard the statement
\* resolved and the subquery ran on.
C15_EmptySubquery ==
    \A s \in Sessions :
        (Plan(s).ID = "DeleteEqual" /\ Plan(s).Subquery # "") =>
          \A j \in Subqueries(s) :
            LET log == st[s].log
            IN  (log[j].err = "" /\ log[j].ret = 0) =>
                  /\ Deletes(s) = {}
                  /\ Len(log) = j => st[s].pc = "dispatchDml"
                  /\ Len(log) > j =>
                        /\ Len(log) = j + 1
                        /\ Base(s) = {j + 1}
                        /\ Done(s)
                        /\ log[j + 1].op = "Execute"
                        /\ log[j + 1].sql = Rewritten(st[s].sql) \o dmlPostfix(st[s].ksid)
                        /\ log[j + 1].bv[ksidName] = StrV(st[s].ksid)
                        /\ log[j + 1].ks = log[j].ks
                        /\ log[j + 1].shards = log[j].shards
                        /\ log[j + 1].shards = {st[s].shard}
                        /\ \E m \in 1..(j - 1) :
                              /\ log[m].op = "Map"
                              /\ log[m].err = ""
                              /\ log[m].ret = st[s].ksid
                              /\ Contains(KnownShard(st[s].shard), log[m].ret)

C15_Witness ==
    \E s \in Sessions :
        /\ Plan(s).ID = "DeleteEqual"
        /\ \E j \in Subqueries(s) : st[s].log[j].err = "" /\ st[s].log[j].ret = 0
        /\ Base(s) # {}
        /\ st[s].res.status = "ok"

\* C16: in a DeleteEqual the subquery and the base DELETE go to the same
\* keyspace and shard, the ones the statement's single topology lookup
\* gave, under the session of the query, and every vindex Delete is given
\* the keyspace id of the base DELETE's keyspace_id and routing comment,
\* whatever the topology has become in between.
C16_SameTarget ==
    \A s \in Sessions :
        (Plan(s).ID = "DeleteEqual" /\ Plan(s).Subquery # "") =>
          LET log == st[s].log
          IN  /\ Cardinality(Lookups(s)) <= 1
              /\ \A j \in Subqueries(s) :
                    /\ log[j].session = s
                    /\ log[j].ks = st[s].ks
                    /\ log[j].shards = {st[s].shard}
                    /\ \A t \in Lookups(s) :
                          t < j /\ log[j].ks = log[t].ks /\ log[j].shards \subseteq log[t].shards
              /\ \A d \in Deletes(s) : log[d].ksid = st[s].ksid
              /\ \A i \in Base(s) :
                    /\ Cardinality(Subqueries(s)) = 1
                    /\ log[i].bv[ksidName] = StrV(st[s].ksid)
                    /\ log[i].sql = Rewritten(st[s].sql) \o dmlPostfix(st[s].ksid)
                    /\ \A d \in Deletes(s) : log[i].bv[ksidName] = StrV(log[d].ksid)
                    /\ \A j \in Subqueries(s) :
                          /\ j < i
                          /\ log[i].ks = log[j].ks
                          /\ log[i].shards = log[j].shards
                          /\ log[i].session = log[j].session

\* A DeleteEqual that found rows, made its Delete calls and sent the base
\* DELETE to a shard the topology no longer lists.
C16_Witness ==
    \E s \in Sessions :
        /\ Plan(s).ID = "DeleteEqual"
        /\ Plan(s).Subquery # ""
        /\ Deletes(s) # {}
        /\ st[s].res.status = "ok"
        /\ \E i \in Base(s) :
              /\ st[s].log[i].ks # SrvKeyspace(topo, "TestRouter").ks
              /\ st[s].log[i].shards \cap ShardNames(SrvKeyspace(topo, "TestRouter").shards) = {}

\* C17: a statement of an unsharded plan kind makes one topology lookup and
\* at most one dispatch; the dispatch follows a lookup that returned one
\* shard and goes to that keyspace and shard with the query's own SQL and
\* the bind variables the client sent (none for a nil map); after a lookup
\* that failed or returned another number of shards the statement has
\* ended in an error and dispatched nothing.
C17_Unsharded ==
    \A s \in Sessions :
        Plan(s).ID \in Unsharded =>
          LET log == st[s].log
          IN  /\ Cardinality(Base(s)) <= 1
              /\ Subqueries(s) = {}
              /\ \A i \in Base(s) :
                    /\ log[i].op = "Execute"
                    /\ log[i].sql = <<st[s].sql>>
                    /\ log[i].bv = st[s].sent.m
                    /\ Cardinality(log[i].shards) = 1
                    /\ Lookups(s) = {i - 1}
                    /\ log[i - 1].err = ""
                    /\ log[i - 1].ks = log[i].ks
                    /\ log[i - 1].shards = log[i].shards
              /\ \A t \in Lookups(s) :
                    (log[t].err # "" \/ Cardinality(log[t].shards) # 1) =>
                       /\ Done(s)
                       /\ st[s].res.status = "error"
                       /\ Base(s) = {}

C17_Witness ==
    \E s \in Sessions :
        /\ Plan(s).ID \in Unsharded
        /\ st[s].sent.m # EmptyMap
        /\ st[s].res.status = "ok"
        /\ \E i \in Base(s) : st[s].log[i].shards = {"0"}

\* The shards, of those a topology lookup returned, that the key range of
\* the statement's two keys covers.
Covered(s, t) ==
    LET kr == [Start |-> st[s].keys[1].v, End |-> st[s].keys[2].v]
        ev == st[s].log[t]
    IN  {n \in ev.shards :
            /\ (kr.End = MaxKey \/ KnownShard(n).Start < kr.End)
            /\ (KnownShard(n).End = MaxKey \/ kr.Start < KnownShard(n).End)}

StringKeys(s) == \A k \in 1..Len(st[s].keys) : st[s].keys[k].t = "string"

\* C18: a SelectKeyrange whose keys are resolved dispatches at most once; it
\* dispatches exactly when both keys are strings and the key range they
\* form covers one shard of those its topology lookup returned, and then
\* to that keyspace and that shard alone; with a key that is no string
\* (no lookup is made then), or a range that covers no shard or more than
\* one, it has ended in an error and dispatched nothing.
C18_KeyrangeOneShard ==
    \A s \in Sessions :
        (Plan(s).ID = "SelectKeyrange" /\ Done(s) /\ st[s].keys # <<>>) =>
          LET log == st[s].log
          IN  /\ Cardinality(Base(s)) <= 1
              /\ Cardinality(Lookups(s)) <= 1
              /\ \A i \in Base(s) :
                    /\ log[i].op = "Execute"
                    /\ StringKeys(s)
                    /\ Lookups(s) = {i - 1}
                    /\ log[i - 1].err = ""
                    /\ log[i].ks = log[i - 1].ks
                    /\ Cardinality(log[i].shards) = 1
                    /\ log[i].shards = Covered(s, i - 1)
              /\ ~StringKeys(s) =>
                    /\ st[s].res.status = "error"
                    /\ log = <<>>
              /\ StringKeys(s) =>
                    /\ Lookups(s) = {1}
                    /\ (log[1].err = "" /\ Cardinality(Covered(s, 1)) = 1) => Base(s) # {}
                    /\ (log[1].err # "" \/ Cardinality(Covered(s, 1)) # 1) =>
                          /\ st[s].res.status = "error"
                          /\ Base(s) = {}

C18_Witness ==
    \E s \in Sessions :
        /\ Plan(s).ID = "SelectKeyrange"
        /\ st[s].res.status = "ok"
        /\ \E i \in Base(s) : st[s].log[i].shards = {"1-2"}

\* A SelectKeyrange whose range spans two shards: an error, no dispatch.
C18_WitnessSpan ==
    \E s \in Sessions :
        /\ Plan(s).ID = "SelectKeyrange"
        /\ Done(s) /\ st[s].keys # <<>> /\ StringKeys(s)
        /\ st[s].log[1].err = ""
        /\ Cardinality(Covered(s, 1)) = 2
        /\ st[s].res.status = "error"

\* The plan kinds whose executor begins with resolveKeys.
Keyed == {"SelectEqual", "SelectIN", "SelectKeyrange", "UpdateEqual", "DeleteEqual",
          "InsertSharded"}

\* The bind variables the plan's values refer to that the client did not send.
Absent(s) ==
    {i \in 1..Len(Plan(s).Values) :
        /\ Plan(s).Values[i].t = "string"
        /\ Plan(s).Values[i].sentinel = ":"
        /\ Plan(s).Values[i].name \notin DOMAIN st[s].sent.m}

\* C19: the keys of a statement are as many as the plan's values and in
\* their order: for a bind-variable reference the value the client bound to
\* the name after the sentinel, for a byte string the same text as a
\* string, for anything else the item itself; when a referenced bind
\* variable was not sent the statement has ended in an error without any
\* call or dispatch.
C19_ResolveKeys ==
    \A s \in Sessions :
        (st[s].pc # "idle" /\ Plan(s).ID \in Keyed) =>
          LET vals == Plan(s).Values
              keys == st[s].keys
          IN  /\ Absent(s) # {} =>
                    /\ Done(s)
                    /\ st[s].res.status = "error"
                    /\ st[s].log = <<>>
                    /\ keys = <<>>
              /\ Absent(s) = {} =>
                    /\ Len(keys) = Len(vals)
                    /\ \A i \in 1..Len(vals) :
                          /\ (vals[i].t = "string" /\ vals[i].sentinel = ":") =>
                                keys[i] = st[s].sent.m[vals[i].name]
                          /\ vals[i].t = "bytes" =>
                                keys[i].t = "string" /\ keys[i].v = vals[i].v
                          /\ vals[i].t \notin {"string", "bytes"} =>
                                keys[i].t = vals[i].t /\ keys[i].v = vals[i].v

C19_Witness ==
    \E s \in Sessions :
        /\ st[s].sql = "select_user_in_ids"
        /\ st[s].keys = <<IntV(2), StrV(1)>>

\* Positions in the log of the Map calls.
Maps(s) == {i \in Idx(s) : st[s].log[i].op = "Map"}

\* The entry a successful Create or Generate of an owned vindex wrote.
Written(ev) ==
    LET val == IF ev.op = "Generate" THEN IntV(ev.ret) ELSE ev.keys[1]
    IN  Entry(ev.vx, val, IF ev.ksid = NoKsid THEN Hash(val.v) ELSE ev.ksid)

\* C20: no statement dispatches its base SQL more than once.  An
\* InsertSharded calls no vindex Delete; it makes at most one topology
\* lookup, one Map, one Create or Generate on the primary ColVindex and
\* one call on each secondary; a call that returned an error is its last
\* call and that error is what the statement returned; a second generated
\* value ends it in an error before the INSERT is sent; and the entries
\* its successful Create and Generate calls wrote are still in the vindex
\* tables, however the statement ended.
C20_NoRollbackNoRetry ==
    \A s \in Sessions :
        /\ Cardinality(Base(s)) <= 1
        /\ Plan(s).ID = "InsertSharded" =>
              LET log == st[s].log
              IN  /\ Deletes(s) = {}
                  /\ Cardinality(Lookups(s)) <= 1
                  /\ Cardinality(Maps(s)) <= 1
                  /\ Cardinality(Primaries(s)) <= 1
                  /\ Cardinality(Secondaries(s)) + 1 <= Len(ColVindexes(s))
                  /\ \A j \in Idx(s) :
                        log[j].err # "" =>
                          /\ j = Len(log)
                          /\ Done(s)
                          /\ st[s].res.status = "error"
                          /\ st[s].res.err = log[j].err
                  /\ Cardinality(Generated(s)) <= 2
                  /\ Cardinality(Generated(s)) = 2 =>
                        /\ Done(s)
                        /\ st[s].res.status = "error"
                        /\ st[s].res.err = "insert generated more than one value"
                        /\ Base(s) = {}
                  /\ \A j \in Primaries(s) \cup Secondaries(s) :
                        (log[j].op \in {"Create", "Generate"} /\ log[j].err = "") =>
                          Written(log[j]) \in vindexTab

\* An InsertSharded whose Create succeeded and whose INSERT then failed.
C20_Witness ==
    \E s \in Sessions :
        /\ Plan(s).ID = "InsertSharded"
        /\ st[s].res.status = "error"
        /\ \E j \in Secondaries(s) :
              /\ st[s].log[j].op = "Create"
              /\ st[s].log[j].err = ""
              /\ Written(st[s].log[j]) \in vindexTab
        /\ \E i \in Base(s) : st[s].log[i].err # ""

====
